---- MODULE Spec2Model ----
(***************************************************************************)
(* A model of the engine-control bridge of the Stockfish library build:    *)
(*   - the UCI option registry (ucioption.cpp: Option, OptionsMap),        *)
(*   - the game session bridge (uci.cpp: init, init_move, undo_move,       *)
(*     new_game, set_position, think).                                     *)
(* The chess engine proper (Position, Threads, move generation) is not     *)
(* part of these sources; it is modelled by its contract.                  *)
(***************************************************************************)
EXTENDS Integers, Sequences, FiniteSets, TLC

VARIABLES
    om,            \* Options: the std::map<string, Option, CaseInsensitiveLess>
    insert_order,  \* the function-local static counter of Option::operator<<
    fired,         \* on_change invocations made by the last registry call
    raised,        \* the last registry call left by an exception
    nwrites,       \* registry calls made since the table was initialised
    via,           \* << name >>: the name the last registry call passed to Options[...]
    opt,           \* one Option, written on its own
    arg,           \* << v >>: the value of the last write to opt (<< >>: none yet)
    prev,          \* opt as it was before that write
    phase,         \* the session: "Uninit", "Ready" or "SearchInFlight" (think() blocked)
    pos,           \* Position _pos
    states,        \* StateListPtr _states: the deque of the root StateInfo
    moveHistory,   \* std::deque<Move> _moveHistory
    threads,       \* Threads: the moves the pool was told, main()->pMove, and the
                   \* results the search in progress may end with ({}: no search)
    ret,           \* << r >>: what the last think() returned, with the engine's raw result
    last,          \* the last bridge call and the length of the history it found
    mark,          \* << m >>: position encoding and history before the last applied move
    applied,       \* the moves applied and not undone since the position was last set
    qpos,          \* the Position a codec or verifier call is made on
    qcall,         \* << c >>: the last such call, its arguments and what it returned
    nthink,        \* think() calls made so far, where they are counted
    heapStates     \* StateInfo objects made by `new StateInfo` and not yet deleted,
                   \* where they are counted

regVars == <<om, insert_order, nwrites, via>>
obsVars == <<fired, raised>>
cellVars == <<opt, arg, prev>>
sessVars == <<phase, pos, states, moveHistory, threads, ret, last, mark, applied>>
cntVars == <<nthink, heapStates>>
qryVars == <<qpos, qcall>>

(***************************************************************************)
(* Bounds of the model.                                                    *)
(***************************************************************************)
\* insert_order is a size_t that only grows; registrations stop at this value
MaxOrder == 18
\* registry writes and lookups between two initialisations of the table
MaxWrites == 2
\* the length the move history may reach
MaxPly == 2
\* think() calls counted in one session
MaxThinks == 3
\* StateInfo objects counted on the heap at one time
MaxHeap == 3

(***************************************************************************)
(* Characters and strings.  A std::string is a TLA+ string; its i-th       *)
(* character is SubSeq(s, i, i).                                           *)
(***************************************************************************)
Upper == "ABCDEFGHIJKLMNOPQRSTUVWXYZ"
Lower == "abcdefghijklmnopqrstuvwxyz"
Digits == "0123456789"
Punct == " +-./<>_"
PunctCode == <<32, 43, 45, 46, 47, 60, 62, 95>>

CharAt(s, i) == SubSeq(s, i, i)

CharsOf(s) == { CharAt(s, i) : i \in 1..Len(s) }

IndexIn(s, c) == CHOOSE i \in 1..Len(s) : CharAt(s, i) = c

Chars == CharsOf(Upper) \cup CharsOf(Lower) \cup CharsOf(Digits) \cup CharsOf(Punct)

\* the ASCII code of a character
CharCode ==
    [c \in Chars |->
        IF c \in CharsOf(Upper) THEN 64 + IndexIn(Upper, c)
        ELSE IF c \in CharsOf(Lower) THEN 96 + IndexIn(Lower, c)
        ELSE IF c \in CharsOf(Digits) THEN 47 + IndexIn(Digits, c)
        ELSE PunctCode[IndexIn(Punct, c)]]

\* the names a caller passes to Options[...]
LookupNames ==
    {"Hash", "HASH", "hash", "Clear Hash", "Ponder", "ponder", "Debug Log File", "Threads",
     "Skill Level", "Analysis Contempt", "UCI_Chess960", "Minimum Thinking Time"}

\* the values a caller writes
WriteValues ==
    {"", "true", "false", "maybe", "True", "0", "7", "21", "131072", "131073",
     "-1", "1.5", " 16", "7 ply", "abc"}

\* the values written through the registry: one refused for being empty, one a
\* check literal, one a number in every spin range, one above every spin range,
\* one that holds no number
RegistryValues == {"", "true", "7", "131073", "abc"}

\* no write yet
NoArg == << >>

Range(f) == { f[x] : x \in DOMAIN f }

\* tolower() in the "C" locale, on character codes
tolower(c) == IF CharCode[c] >= 65 /\ CharCode[c] <= 90 THEN CharCode[c] + 32 ELSE CharCode[c]

\* the comparison of a mutant that forgets tolower()
RECURSIVE LexLessExact(_, _, _)
LexLessExact(s1, s2, i) ==
    IF i > Len(s2) THEN FALSE
    ELSE IF i > Len(s1) THEN TRUE
    ELSE IF CharCode[CharAt(s1, i)] < CharCode[CharAt(s2, i)] THEN TRUE
    ELSE IF CharCode[CharAt(s2, i)] < CharCode[CharAt(s1, i)] THEN FALSE
    ELSE LexLessExact(s1, s2, i + 1)

ExactTable == [a \in LookupNames |-> [b \in LookupNames |-> LexLessExact(a, b, 1)]]

CaseSensitiveLess(s1, s2) == ExactTable[s1][s2]

\* std::lexicographical_compare with comp(c1, c2) = tolower(c1) < tolower(c2)
RECURSIVE LexLess(_, _, _)
LexLess(s1, s2, i) ==
    IF i > Len(s2) THEN FALSE
    ELSE IF i > Len(s1) THEN TRUE
    ELSE IF tolower(CharAt(s1, i)) < tolower(CharAt(s2, i)) THEN TRUE
    ELSE IF tolower(CharAt(s2, i)) < tolower(CharAt(s1, i)) THEN FALSE
    ELSE LexLess(s1, s2, i + 1)

\* the comparison, tabulated once over the names in use
LessTable == [a \in LookupNames |-> [b \in LookupNames |-> LexLess(a, b, 1)]]

CaseInsensitiveLess(s1, s2) == LessTable[s1][s2]

\* the equivalence a std::map derives from its comparator
KeyEquiv(a, b) == ~CaseInsensitiveLess(a, b) /\ ~CaseInsensitiveLess(b, a)

(***************************************************************************)
(* std::stof on the strings the model writes: optional white space, an     *)
(* optional sign, decimal digits with an optional point.  The result is    *)
(* the exact rational num/den; ok = FALSE is std::invalid_argument (no     *)
(* conversion could be performed).  Trailing characters are ignored, as    *)
(* stof ignores them.  (No written value has an exponent, a hex prefix,    *)
(* "inf" or "nan" after the sign, nor enough digits for binary rounding    *)
(* to move it across an integer.)                                          *)
(***************************************************************************)
IsDigit(c) == CharCode[c] >= 48 /\ CharCode[c] <= 57

DigitVal(c) == CharCode[c] - 48

RECURSIVE SkipSpace(_, _)
SkipSpace(s, i) == IF i <= Len(s) /\ CharAt(s, i) = " " THEN SkipSpace(s, i + 1) ELSE i

RECURSIVE DigitRun(_, _)
DigitRun(s, i) == IF i <= Len(s) /\ IsDigit(CharAt(s, i)) THEN 1 + DigitRun(s, i + 1) ELSE 0

RECURSIVE DigitsValue(_, _, _, _)
DigitsValue(s, i, n, acc) ==
    IF n = 0 THEN acc ELSE DigitsValue(s, i + 1, n - 1, 10 * acc + DigitVal(CharAt(s, i)))

RECURSIVE Pow10(_)
Pow10(n) == IF n = 0 THEN 1 ELSE 10 * Pow10(n - 1)

ParseFloat(s) ==
    LET i0     == SkipSpace(s, 1)
        signed == i0 <= Len(s) /\ CharAt(s, i0) \in {"-", "+"}
        neg    == signed /\ CharAt(s, i0) = "-"
        i1     == IF signed THEN i0 + 1 ELSE i0
        n1     == DigitRun(s, i1)
        dot    == i1 + n1 <= Len(s) /\ CharAt(s, i1 + n1) = "."
        n2     == IF dot THEN DigitRun(s, i1 + n1 + 1) ELSE 0
        mag    == DigitsValue(s, i1 + n1 + 1, n2, DigitsValue(s, i1, n1, 0))
    IN  [ok |-> n1 + n2 > 0, num |-> IF neg THEN 0 - mag ELSE mag, den |-> Pow10(n2)]

\* std::to_string(double) of a whole number: six decimals
to_string(v) == ToString(v) \o ".000000"

\* the skill and time a host passes to cpp_init_stockfish
SkillInputs == {0, 20}
TimeInputs == {20}

\* the skill level a game session is initialised with
SessionSkillInputs == {20}

\* the texts stof is applied to: the written values and the spin defaults
NumberTexts == WriteValues \cup { to_string(v) : v \in {1, 16} \cup SkillInputs \cup TimeInputs }

\* the conversion, tabulated once over the texts in use
StofTable == [s \in NumberTexts |-> ParseFloat(s)]

stof(s) == StofTable[s]

\* stof(v) < n and stof(v) > n for an int n (n converts to float exactly)
FloorOf(f) == f.num \div f.den
FloatLess(f, n) == FloorOf(f) < n
FloatGreater(f, n) == FloorOf(f) > n \/ (FloorOf(f) = n /\ f.num % f.den # 0)

\* int(x): truncation towards zero
IntOf(f) == IF f.num >= 0 THEN f.num \div f.den ELSE 0 - ((0 - f.num) \div f.den)


(***************************************************************************)
(* Option: constructors (one per UCI type) and the conversions.            *)
(* on_change is the name of the callback, "" for nullptr.  idx is left     *)
(* uninitialised by every constructor: the value it then holds is the      *)
(* parameter junk.                                                         *)
(***************************************************************************)
MkOption(t, d, c, lo, hi, f, junk) ==
    [type |-> t, defaultValue |-> d, currentValue |-> c, min |-> lo, max |-> hi,
     idx |-> junk, on_change |-> f]

OptionString(v, f, junk) == MkOption("string", v, v, 0, 0, f, junk)

OptionCheck(v, f, junk) ==
    MkOption("check", IF v THEN "true" ELSE "false", IF v THEN "true" ELSE "false", 0, 0, f, junk)

OptionButton(f, junk) == MkOption("button", "", "", 0, 0, f, junk)

OptionSpin(v, minv, maxv, f, junk) ==
    MkOption("spin", to_string(v), to_string(v), minv, maxv, f, junk)

OptionCombo(v, cur, f, junk) == MkOption("combo", v, cur, 0, 0, f, junk)

\* Option::operator double(): the numeric reading of a check or spin option
OptionDouble(o) ==
    IF o.type = "spin" THEN stof(o.currentValue)
    ELSE [ok |-> TRUE, num |-> IF o.currentValue = "true" THEN 1 ELSE 0, den |-> 1]

(***************************************************************************)
(* OptionsMap: a function from the stored keys to Options.                 *)
(***************************************************************************)
\* the stored key equivalent to name, or name itself when there is none
FindKey(m, name) ==
    IF \E k \in DOMAIN m : KeyEquiv(k, name)
    THEN CHOOSE k \in DOMAIN m : KeyEquiv(k, name)
    ELSE name

\* std::map::operator[]: a missing key is inserted with a default-constructed
\* Option (the button constructor with f = nullptr)
Subscript(m, name, junk) ==
    IF \E k \in DOMAIN m : KeyEquiv(k, name)
    THEN m
    ELSE [k \in DOMAIN m \cup {name} |-> IF k = name THEN OptionButton("", junk) ELSE m[k]]

\* o[name] << Option(...): operator[] then Option::operator<<, which copies the
\* whole Option over the entry and stamps it with insert_order++
Register(m, order, name, o) ==
    LET m1 == Subscript(m, name, o.idx)
        k  == FindKey(m1, name)
    IN  [map |-> [m1 EXCEPT ![k] = [o EXCEPT !.idx = order]], order |-> order + 1]

\* operator= with the upper bound of a spin left unchecked
AssignNoUpperBound(o, v) ==
    LET f        == stof(v)
        rejected == [opt |-> o, fired |-> << >>, raised |-> FALSE]
        set      == IF o.type # "button" THEN [o EXCEPT !.currentValue = v] ELSE o
    IN  IF o.type # "button" /\ v = "" THEN rejected
        ELSE IF o.type = "check" /\ v # "true" /\ v # "false" THEN rejected
        ELSE IF o.type = "spin" /\ ~f.ok THEN [opt |-> o, fired |-> << >>, raised |-> TRUE]
        ELSE IF o.type = "spin" /\ FloatLess(f, o.min) THEN rejected
        ELSE [opt   |-> set,
              fired |-> IF o.on_change # "" THEN << [cb |-> o.on_change, seen |-> set] >> ELSE << >>,
              raised |-> FALSE]

\* operator= with the check literals compared without regard to case
AssignAnyCaseCheck(o, v) ==
    LET f        == stof(v)
        rejected == [opt |-> o, fired |-> << >>, raised |-> FALSE]
        set      == IF o.type # "button" THEN [o EXCEPT !.currentValue = v] ELSE o
    IN  IF o.type # "button" /\ v = "" THEN rejected
        ELSE IF o.type = "check" /\ v \notin {"true", "false", "True", "False"} THEN rejected
        ELSE IF o.type = "spin" /\ ~f.ok THEN [opt |-> o, fired |-> << >>, raised |-> TRUE]
        ELSE IF o.type = "spin" /\ (FloatLess(f, o.min) \/ FloatGreater(f, o.max)) THEN rejected
        ELSE [opt   |-> set,
              fired |-> IF o.on_change # "" THEN << [cb |-> o.on_change, seen |-> set] >> ELSE << >>,
              raised |-> FALSE]

\* operator= refusing the empty value for a button as for the other types
AssignButtonNeedsValue(o, v) ==
    LET f        == stof(v)
        rejected == [opt |-> o, fired |-> << >>, raised |-> FALSE]
        set      == IF o.type # "button" THEN [o EXCEPT !.currentValue = v] ELSE o
    IN  IF v = "" THEN rejected
        ELSE IF o.type = "check" /\ v # "true" /\ v # "false" THEN rejected
        ELSE IF o.type = "spin" /\ ~f.ok THEN [opt |-> o, fired |-> << >>, raised |-> TRUE]
        ELSE IF o.type = "spin" /\ (FloatLess(f, o.min) \/ FloatGreater(f, o.max)) THEN rejected
        ELSE [opt   |-> set,
              fired |-> IF o.on_change # "" THEN << [cb |-> o.on_change, seen |-> set] >> ELSE << >>,
              raised |-> FALSE]

\* Option::operator=(const std::string&).  stof() throws before anything is
\* changed when v holds no number.
Assign(o, v) ==
    LET f        == stof(v)
        rejected == [opt |-> o, fired |-> << >>, raised |-> FALSE]
        set      == IF o.type # "button" THEN [o EXCEPT !.currentValue = v] ELSE o
    IN  IF o.type # "button" /\ v = "" THEN rejected
        ELSE IF o.type = "check" /\ v # "true" /\ v # "false" THEN rejected
        ELSE IF o.type = "spin" /\ ~f.ok THEN [opt |-> o, fired |-> << >>, raised |-> TRUE]
        ELSE IF o.type = "spin" /\ (FloatLess(f, o.min) \/ FloatGreater(f, o.max)) THEN rejected
        ELSE [opt   |-> set,
              fired |-> IF o.on_change # "" THEN << [cb |-> o.on_change, seen |-> set] >> ELSE << >>,
              raised |-> FALSE]

(***************************************************************************)
(* UCI::init(OptionsMap&, skill, time): the option table.  The model keeps *)
(* the rows that differ in kind, in callback or in the parameter they      *)
(* take; the rows left out repeat one of these shapes.                     *)
(***************************************************************************)
Is64Bit == TRUE
MaxHashMB == IF Is64Bit THEN 131072 ELSE 2048

InitTable(skill, time, junk) ==
    << [name |-> "Debug Log File",    opt |-> OptionString("", "on_logger", junk)],
       [name |-> "Analysis Contempt", opt |-> OptionCombo("Both var Off var White var Black var Both", "Both", "", junk)],
       [name |-> "Threads",           opt |-> OptionSpin(1, 1, 512, "on_threads", junk)],
       [name |-> "Hash",              opt |-> OptionSpin(16, 1, MaxHashMB, "on_hash_size", junk)],
       [name |-> "Clear Hash",        opt |-> OptionButton("on_clear_hash", junk)],
       [name |-> "Ponder",            opt |-> OptionCheck(FALSE, "", junk)],
       [name |-> "Skill Level",       opt |-> OptionSpin(skill, 0, 20, "", junk)],
       [name |-> "Minimum Thinking Time", opt |-> OptionSpin(time, 0, 5000, "", junk)],
       [name |-> "UCI_Chess960",      opt |-> OptionCheck(FALSE, "", junk)] >>

RECURSIVE RegisterAll(_, _, _, _)
RegisterAll(m, order, rows, i) ==
    IF i > Len(rows) THEN [map |-> m, order |-> order]
    ELSE LET r == Register(m, order, rows[i].name, rows[i].opt)
         IN  RegisterAll(r.map, r.order, rows, i + 1)

UciInitOptions(m, order, skill, time, junk) == RegisterAll(m, order, InitTable(skill, time, junk), 1)

(***************************************************************************)
(* operator<<(std::ostream&, const OptionsMap&)                            *)
(***************************************************************************)
\* the keys in the map's own (comparator) order
KeyRank(m, k) == Cardinality({ j \in DOMAIN m : CaseInsensitiveLess(j, k) })

\* for (const auto& it : om) if (it.second.idx == idx) { ...; break; }
FirstWithIdx(m, idx) ==
    LET hits == { k \in DOMAIN m : m[k].idx = idx }
    IN  IF hits = {} THEN << >>
        ELSE << CHOOSE k \in hits : \A j \in hits : KeyRank(m, k) <= KeyRank(m, j) >>

RECURSIVE RenderKeysFrom(_, _)
RenderKeysFrom(m, idx) ==
    IF idx >= Cardinality(DOMAIN m) THEN << >>
    ELSE FirstWithIdx(m, idx) \o RenderKeysFrom(m, idx + 1)

\* the keys of the options printed, in the order printed
RenderKeys(m) == RenderKeysFrom(m, 0)

RenderLine(k, o) ==
    "option name " \o k \o " type " \o o.type
    \o (IF o.type \in {"string", "check", "combo"} THEN " default " \o o.defaultValue ELSE "")
    \o (IF o.type = "spin"
        THEN " default " \o ToString(IntOf(stof(o.defaultValue)))
             \o " min " \o ToString(o.min) \o " max " \o ToString(o.max)
        ELSE "")

Render(m) == [i \in 1..Len(RenderKeys(m)) |-> RenderLine(RenderKeys(m)[i], m[RenderKeys(m)[i]])]

(***************************************************************************)
(* The registry's calls.                                                   *)
(***************************************************************************)
\* an uninitialised size_t, as read back
JunkIdx == {0, MaxOrder}


JunkFor(name) == IF \E k \in DOMAIN om : KeyEquiv(k, name) THEN {0} ELSE JunkIdx

\* UCI::init(Options, skill, time)
OptionsInit(skill, time) ==
    /\ insert_order + Len(InitTable(skill, time, 0)) <= MaxOrder
    /\ \E junk \in JunkIdx :
         LET r == UciInitOptions(om, insert_order, skill, time, junk)
         IN  om' = r.map /\ insert_order' = r.order
    /\ fired' = << >>
    /\ raised' = FALSE
    /\ nwrites' = 0
    /\ via' = << >>

\* Options[name] = v
Write(name, v) ==
    /\ om # << >>
    /\ nwrites < MaxWrites
    /\ \E junk \in JunkFor(name) :
         LET m1 == Subscript(om, name, junk)
             k  == FindKey(m1, name)
             r  == Assign(m1[k], v)
         IN  /\ om' = [m1 EXCEPT ![k] = r.opt]
             /\ fired' = r.fired
             /\ raised' = r.raised
    /\ nwrites' = nwrites + 1
    /\ via' = << name >>
    /\ UNCHANGED insert_order

\* Options[name], read
Lookup(name) ==
    /\ om # << >>
    /\ nwrites < MaxWrites
    /\ \E junk \in JunkFor(name) : om' = Subscript(om, name, junk)
    /\ fired' = << >>
    /\ raised' = FALSE
    /\ nwrites' = nwrites + 1
    /\ via' = << name >>
    /\ UNCHANGED insert_order

\* the Options of a freshly initialised table
RegisteredOptions ==
    { UciInitOptions(<< >>, 0, skill, time, 0).map[k] :
        skill \in SkillInputs, time \in TimeInputs, k \in { r.name : r \in Range(InitTable(0, 0, 0)) } }

\* the Option that Options[name] makes for a name the table does not hold
UnregisteredOption == OptionButton("", 0)

\* opt = v, on one Option
OptionWrite(v) ==
    LET r == Assign(opt, v)
    IN  /\ opt' = r.opt
        /\ fired' = r.fired
        /\ raised' = r.raised
        /\ arg' = << v >>
        /\ prev' = opt

(***************************************************************************)
(* The engine, by its contract: squares and moves (types.h), the position  *)
(* with make and unmake (Position), the board encoding (FEN) and the       *)
(* enumeration of legal moves (MoveList<LEGAL>).  None of it is in the     *)
(* sources modelled here; it follows the rules of chess and the engine's   *)
(* documented conventions.                                                 *)
(***************************************************************************)
Squares == 0..63

file_of(sq) == sq % 8
rank_of(sq) == sq \div 8
make_square(f, r) == 8 * r + f

FILE_C == 2
FILE_G == 6

\* a Move is 16 bits: to (6), from (6), promotion piece - KNIGHT (2), type (2)
NORMAL == 0
PROMOTION == 1
ENPASSANT == 2
CASTLING == 3

MOVE_NONE == 0

make_move(from, to) == 64 * from + to
make_typed(t, from, to, pt) == 16384 * t + 4096 * (pt - 2) + 64 * from + to

from_sq(m) == (m \div 64) % 64
to_sq(m) == m % 64
type_of(m) == m \div 16384
promotion_type(m) == ((m \div 4096) % 4) + 2

\* pieces: white in upper case, black in lower case, "." an empty square
WhitePieces == {"P", "N", "B", "R", "Q", "K"}
BlackPieces == {"p", "n", "b", "r", "q", "k"}

ColorOf(p) == IF p \in WhitePieces THEN "w" ELSE IF p \in BlackPieces THEN "b" ELSE "-"

Other(c) == IF c = "w" THEN "b" ELSE "w"

\* the piece of kind k ("P", "N", ...) in colour c
BlackOf == [k \in WhitePieces |-> CharAt(Lower, IndexIn(Upper, k))]

PieceOf(c, k) == IF c = "w" THEN k ELSE BlackOf[k]

\* the kind of a piece, as the white letter
KindOf(p) == IF p \in BlackPieces THEN CharAt(Upper, IndexIn(Lower, p)) ELSE p

\* promotion piece types KNIGHT..QUEEN are 2..5
PromoKinds == <<"P", "N", "B", "R", "Q", "K">>

OnBoard(f, r) == f >= 0 /\ f <= 7 /\ r >= 0 /\ r <= 7

KnightSteps == {<<1, 2>>, <<2, 1>>, <<2, -1>>, <<1, -2>>, <<-1, -2>>, <<-2, -1>>, <<-2, 1>>, <<-1, 2>>}
RookDirs == {<<1, 0>>, <<-1, 0>>, <<0, 1>>, <<0, -1>>}
BishopDirs == {<<1, 1>>, <<1, -1>>, <<-1, 1>>, <<-1, -1>>}
KingSteps == RookDirs \cup BishopDirs

\* the squares one step from sq
StepTargets(sq, steps) ==
    { make_square(file_of(sq) + d[1], rank_of(sq) + d[2]) :
        d \in { e \in steps : OnBoard(file_of(sq) + e[1], rank_of(sq) + e[2]) } }

\* the squares a slider on (f, r) reaches in direction d: up to and including
\* the first occupied square
RECURSIVE Ray(_, _, _, _)
Ray(b, f, r, d) ==
    IF ~OnBoard(f + d[1], r + d[2]) THEN {}
    ELSE LET t == make_square(f + d[1], r + d[2])
         IN  IF b[t] = "." THEN {t} \cup Ray(b, f + d[1], r + d[2], d) ELSE {t}

SlideTargets(b, sq, dirs) == UNION { Ray(b, file_of(sq), rank_of(sq), d) : d \in dirs }

\* the squares the piece on sq attacks
AttacksFrom(b, sq) ==
    LET p == b[sq]
        k == KindOf(p)
    IN  IF k = "P" THEN StepTargets(sq, IF p = "P" THEN {<<1, 1>>, <<-1, 1>>} ELSE {<<1, -1>>, <<-1, -1>>})
        ELSE IF k = "N" THEN StepTargets(sq, KnightSteps)
        ELSE IF k = "K" THEN StepTargets(sq, KingSteps)
        ELSE IF k = "R" THEN SlideTargets(b, sq, RookDirs)
        ELSE IF k = "B" THEN SlideTargets(b, sq, BishopDirs)
        ELSE IF k = "Q" THEN SlideTargets(b, sq, KingSteps)
        ELSE {}

\* sq is attacked by a piece of colour c
Attacked(b, sq, c) ==
    \/ \E a \in StepTargets(sq, KnightSteps) : b[a] = PieceOf(c, "N")
    \/ \E a \in StepTargets(sq, KingSteps) : b[a] = PieceOf(c, "K")
    \/ \E a \in StepTargets(sq, IF c = "w" THEN {<<1, -1>>, <<-1, -1>>} ELSE {<<1, 1>>, <<-1, 1>>}) :
          b[a] = PieceOf(c, "P")
    \/ \E a \in SlideTargets(b, sq, RookDirs) : b[a] \in {PieceOf(c, "R"), PieceOf(c, "Q")}
    \/ \E a \in SlideTargets(b, sq, BishopDirs) : b[a] \in {PieceOf(c, "B"), PieceOf(c, "Q")}

KingSquare(b, c) == CHOOSE sq \in Squares : b[sq] = PieceOf(c, "K")

(***************************************************************************)
(* Position.  st is the chain of StateInfo from the root (set by           *)
(* Position::set) to the current one; each do_move links one more.         *)
(***************************************************************************)
NoSquare == 64

Top(p) == p.st[Len(p.st)]

RightsLost(sq) ==
    IF sq = 4 THEN {"K", "Q"} ELSE IF sq = 0 THEN {"Q"} ELSE IF sq = 7 THEN {"K"}
    ELSE IF sq = 60 THEN {"k", "q"} ELSE IF sq = 56 THEN {"q"} ELSE IF sq = 63 THEN {"k"}
    ELSE {}

\* the pawn push of colour c, in squares
Push(c) == IF c = "w" THEN 8 ELSE 0 - 8

\* Position::do_move(m, newSt); heap tells where newSt was allocated
DoMoveEngine(p, m, heap) ==
    LET us     == p.side
        from   == from_sq(m)
        to     == to_sq(m)
        t      == type_of(m)
        b      == p.board
        pc     == b[from]
        old    == Top(p)
        capsq  == IF t = ENPASSANT THEN to - Push(us) ELSE to
        capt   == IF t = CASTLING THEN "." ELSE b[capsq]
        kside  == to > from
        kto    == make_square(IF kside THEN FILE_G ELSE FILE_C, rank_of(from))
        rto    == make_square(IF kside THEN 5 ELSE 3, rank_of(from))
        placed == IF t = PROMOTION THEN PieceOf(us, PromoKinds[promotion_type(m)]) ELSE pc
        b1     == IF t = CASTLING
                  THEN [sq \in Squares |->
                          IF sq = kto THEN pc
                          ELSE IF sq = rto THEN b[to]
                          ELSE IF sq = from \/ sq = to THEN "."
                          ELSE b[sq]]
                  ELSE [sq \in Squares |->
                          IF sq = to THEN placed
                          ELSE IF sq = from \/ sq = capsq THEN "."
                          ELSE b[sq]]
        dbl    == KindOf(pc) = "P" /\ (to - from = 16 \/ from - to = 16)
        epsq   == IF dbl /\ \E a \in StepTargets(from + Push(us), IF us = "w" THEN {<<1, 1>>, <<-1, 1>>} ELSE {<<1, -1>>, <<-1, -1>>}) :
                               b[a] = PieceOf(Other(us), "P")
                  THEN from + Push(us) ELSE NoSquare
        new    == [castling |-> old.castling \ (RightsLost(from) \cup RightsLost(to)),
                   ep       |-> epsq,
                   rule50   |-> IF capt # "." \/ KindOf(pc) = "P" THEN 0 ELSE old.rule50 + 1,
                   captured |-> capt,
                   key      |-> << b1, Other(us) >>,
                   heap     |-> heap]
    IN  [p EXCEPT !.board = b1, !.side = Other(us), !.gamePly = p.gamePly + 1,
                    !.st = Append(p.st, new)]

\* Position::undo_move(m): the inverse of do_move(m) when m is the move that
\* was made last; with any other m the board it leaves is the one the same
\* steps produce
UndoMoveEngine(p, m) ==
    LET us     == Other(p.side)
        from   == from_sq(m)
        to     == to_sq(m)
        t      == type_of(m)
        b      == p.board
        cur    == Top(p)
        kside  == to > from
        kto    == make_square(IF kside THEN FILE_G ELSE FILE_C, rank_of(from))
        rto    == make_square(IF kside THEN 5 ELSE 3, rank_of(from))
        capsq  == IF t = ENPASSANT THEN to - Push(us) ELSE to
        back   == IF t = PROMOTION THEN PieceOf(us, "P") ELSE b[to]
        b1     == IF t = CASTLING
                  THEN [sq \in Squares |->
                          IF sq = from THEN b[kto]
                          ELSE IF sq = to THEN b[rto]
                          ELSE IF sq = kto \/ sq = rto THEN "."
                          ELSE b[sq]]
                  ELSE [sq \in Squares |->
                          IF sq = from THEN back
                          ELSE IF sq = capsq THEN cur.captured
                          ELSE IF sq = to THEN "."
                          ELSE b[sq]]
    IN  [p EXCEPT !.board = b1, !.side = us, !.gamePly = p.gamePly - 1,
                    !.st = SubSeq(p.st, 1, Len(p.st) - 1)]

\* Position::three_fold_repetition: the position (placement, side to move,
\* castling rights, en passant square) stood twice before on the chain
three_fold_repetition(p) ==
    LET cur  == Top(p)
        same == { i \in 1..(Len(p.st) - 1) :
                    /\ p.st[i].key = cur.key
                    /\ p.st[i].castling = cur.castling
                    /\ p.st[i].ep = cur.ep }
    IN  Cardinality(same) >= 2

\* Position::rule50_count
rule50_count(p) == Top(p).rule50

(***************************************************************************)
(* The board encoding (six-field FEN) and Position::set / Position::fen.   *)
(***************************************************************************)
\* the index after the k-th space of s (1 for k = 0)
RECURSIVE FieldStart(_, _, _)
FieldStart(s, k, i) ==
    IF k = 0 THEN i
    ELSE IF CharAt(s, i) = " " THEN FieldStart(s, k - 1, i + 1)
    ELSE FieldStart(s, k, i + 1)

RECURSIVE FieldEnd(_, _)
FieldEnd(s, i) == IF i > Len(s) \/ CharAt(s, i) = " " THEN i - 1 ELSE FieldEnd(s, i + 1)

\* the k-th field of s, counted from 0
Field(s, k) == LET a == FieldStart(s, k, 1) IN SubSeq(s, a, FieldEnd(s, a))

\* the piece placement: ranks 8 down to 1, files a to h
RECURSIVE ParseBoard(_, _, _, _, _)
ParseBoard(s, i, f, r, acc) ==
    IF i > Len(s) THEN acc
    ELSE LET c == CharAt(s, i)
         IN  IF c = "/" THEN ParseBoard(s, i + 1, 0, r - 1, acc)
             ELSE IF IsDigit(c) THEN ParseBoard(s, i + 1, f + DigitVal(c), r, acc)
             ELSE ParseBoard(s, i + 1, f + 1, r, [acc EXCEPT ![make_square(f, r)] = c])

SquareOfText(s) ==
    IF s = "-" THEN NoSquare
    ELSE make_square(IndexIn(Lower, CharAt(s, 1)) - 1, DigitVal(CharAt(s, 2)) - 1)

\* Position::set(fen, isChess960, si, th); the root StateInfo is the one of
\* the state list
ParseFen(fen, chess960) ==
    LET side == Field(fen, 1)
        full == DigitsValue(Field(fen, 5), 1, Len(Field(fen, 5)), 0)
        ply0 == 2 * (full - 1)
        b    == ParseBoard(Field(fen, 0), 1, 0, 7, [sq \in Squares |-> "."])
    IN  [board    |-> b,
         side     |-> side,
         gamePly  |-> (IF ply0 > 0 THEN ply0 ELSE 0) + (IF side = "b" THEN 1 ELSE 0),
         chess960 |-> chess960,
         st       |-> << [castling |-> CharsOf(Field(fen, 2)) \ {"-"},
                          ep       |-> SquareOfText(Field(fen, 3)),
                          rule50   |-> DigitsValue(Field(fen, 4), 1, Len(Field(fen, 4)), 0),
                          captured |-> ".",
                          key      |-> << b, side >>,
                          heap     |-> FALSE] >>]

\* UCI::square
square(sq) == CharAt(Lower, file_of(sq) + 1) \o CharAt(Digits, rank_of(sq) + 2)

RECURSIVE FenRank(_, _, _, _)
FenRank(b, r, f, empty) ==
    IF f > 7 THEN (IF empty > 0 THEN ToString(empty) ELSE "")
    ELSE IF b[make_square(f, r)] = "." THEN FenRank(b, r, f + 1, empty + 1)
    ELSE (IF empty > 0 THEN ToString(empty) ELSE "") \o b[make_square(f, r)] \o FenRank(b, r, f + 1, 0)

RECURSIVE FenBoard(_, _)
FenBoard(b, r) == FenRank(b, r, 0, 0) \o (IF r > 0 THEN "/" \o FenBoard(b, r - 1) ELSE "")

FenCastling(rights) ==
    IF rights = {} THEN "-"
    ELSE (IF "K" \in rights THEN "K" ELSE "") \o (IF "Q" \in rights THEN "Q" ELSE "")
         \o (IF "k" \in rights THEN "k" ELSE "") \o (IF "q" \in rights THEN "q" ELSE "")

\* Position::fen
Fen(p) ==
    FenBoard(p.board, 7) \o " " \o p.side \o " " \o FenCastling(Top(p).castling) \o " "
    \o (IF Top(p).ep = NoSquare THEN "-" ELSE square(Top(p).ep)) \o " "
    \o ToString(Top(p).rule50) \o " "
    \o ToString(1 + (p.gamePly - (IF p.side = "b" THEN 1 ELSE 0)) \div 2)

(***************************************************************************)
(* MoveList<LEGAL>                                                         *)
(***************************************************************************)
PawnMoves(p, from) ==
    LET b      == p.board
        us     == p.side
        fwd    == IF us = "w" THEN 1 ELSE 0 - 1
        r      == rank_of(from)
        seventh   == IF us = "w" THEN 6 ELSE 1      \* the rank a pawn promotes from
        second  == IF us = "w" THEN 1 ELSE 6
        one    == from + Push(us)
        two    == from + 2 * Push(us)
        caps   == StepTargets(from, {<<1, fwd>>, <<-1, fwd>>})
        quiet  == (IF b[one] = "." THEN {one} ELSE {})
                  \cup (IF r = second /\ b[one] = "." /\ b[two] = "." THEN {two} ELSE {})
        takes  == { t \in caps : ColorOf(b[t]) = Other(us) }
        eps    == { t \in caps : t = Top(p).ep }
    IN  (IF r = seventh
         THEN { make_typed(PROMOTION, from, t, pt) : t \in quiet \cup takes, pt \in 2..5 }
         ELSE { make_move(from, t) : t \in quiet \cup takes })
        \cup { make_typed(ENPASSANT, from, t, 2) : t \in eps }

\* castling of colour us to the side of rook square rsq: the right is held,
\* the squares between king and rook are empty, the king neither stands on,
\* crosses nor reaches an attacked square
CanCastle(p, right, from, rsq) ==
    LET b     == p.board
        them  == Other(p.side)
        kto   == make_square(IF rsq > from THEN FILE_G ELSE FILE_C, rank_of(from))
        lo    == IF rsq > from THEN from ELSE rsq
        hi    == IF rsq > from THEN rsq ELSE from
        klo   == IF kto > from THEN from ELSE kto
        khi   == IF kto > from THEN kto ELSE from
    IN  /\ right \in Top(p).castling
        /\ b[from] = PieceOf(p.side, "K")
        /\ b[rsq] = PieceOf(p.side, "R")
        /\ \A sq \in (lo + 1)..(hi - 1) : b[sq] = "."
        /\ \A sq \in klo..khi : ~Attacked(b, sq, them)

CastlingMoves(p) ==
    LET from == IF p.side = "w" THEN 4 ELSE 60
        ks   == IF p.side = "w" THEN "K" ELSE "k"
        qs   == IF p.side = "w" THEN "Q" ELSE "q"
    IN  (IF CanCastle(p, ks, from, from + 3) THEN { make_typed(CASTLING, from, from + 3, 2) } ELSE {})
        \cup (IF CanCastle(p, qs, from, from - 4) THEN { make_typed(CASTLING, from, from - 4, 2) } ELSE {})

PieceMoves(p, from) ==
    IF KindOf(p.board[from]) = "P" THEN PawnMoves(p, from)
    ELSE { make_move(from, t) : t \in { a \in AttacksFrom(p.board, from) : ColorOf(p.board[a]) # p.side } }

PseudoLegal(p) ==
    UNION { PieceMoves(p, from) : from \in { sq \in Squares : ColorOf(p.board[sq]) = p.side } }
    \cup CastlingMoves(p)

\* a pseudo-legal move is legal when it leaves the mover's king unattacked
LeavesKingSafe(p, m) ==
    LET after == DoMoveEngine(p, m, FALSE)
    IN  ~Attacked(after.board, KingSquare(after.board, p.side), Other(p.side))

LegalMoves(p) == { m \in PseudoLegal(p) : LeavesKingSafe(p, m) }

\* the set s in ascending order
RECURSIVE SortSet(_)
SortSet(s) ==
    IF s = {} THEN << >>
    ELSE LET x == CHOOSE y \in s : \A z \in s : y <= z IN << x >> \o SortSet(s \ {x})

\* the legal moves in the order the engine lists them
MoveListLegal(p) == SortSet(LegalMoves(p))

(***************************************************************************)
(* The move codec (UCI::move, UCI::to_move) and the positions it and the   *)
(* legality verifier are called on.                                        *)
(***************************************************************************)
MOVE_NULL == 65

\* the encodings of the positions the codec and the verifier are called on:
\* castling for either side, a promotion, an en passant capture, no legal
\* move, and half-move clocks around 50 and 100
QueryFens ==
    {"r3k2r/8/8/8/8/8/8/R3K2R w KQkq - 0 1",
     "r3k2r/8/8/8/8/8/8/R3K2R b KQkq - 0 1",
     "4k3/6P1/8/8/8/8/8/4K3 w - - 0 1",
     "4k3/8/8/3pP3/8/8/8/4K3 w - d6 0 2",
     "7k/5Q2/6K1/8/8/8/8/8 b - - 0 1",
     "4k3/8/8/8/8/8/8/4K2R w K - 49 40",
     "4k3/8/8/8/8/8/8/4K2R w K - 50 40",
     "4k3/8/8/8/8/8/8/4K2R w K - 99 60",
     "4k3/8/8/8/8/8/8/4K2R w K - 100 60"}

\* pos.set(fen, Options["UCI_Chess960"], ...) for either value of the option
QueryPositions == { ParseFen(fen, chess960) : fen \in QueryFens, chess960 \in BOOLEAN }

\* MoveList<LEGAL>(pos) of these positions
LegalTable == [p \in QueryPositions |-> MoveListLegal(p)]

\* UCI::move
move(m, chess960) ==
    LET from == from_sq(m)
        to   == IF type_of(m) = CASTLING /\ ~chess960
                THEN make_square(IF to_sq(m) > from THEN FILE_G ELSE FILE_C, rank_of(from))
                ELSE to_sq(m)
    IN  IF m = MOVE_NONE THEN "(none)"
        ELSE IF m = MOVE_NULL THEN "0000"
        ELSE square(from) \o square(to)
             \o (IF type_of(m) = PROMOTION THEN CharAt(" pnbrqk", promotion_type(m) + 1) ELSE "")

\* char(tolower(c)) and char(toupper(c))
LowerChar(c) == IF c \in CharsOf(Upper) THEN CharAt(Lower, IndexIn(Upper, c)) ELSE c
UpperChar(c) == IF c \in CharsOf(Lower) THEN CharAt(Upper, IndexIn(Lower, c)) ELSE c

\* UCI::move of the legal moves of these positions
MoveTable == [p \in QueryPositions |-> [i \in DOMAIN LegalTable[p] |-> move(LegalTable[p][i], p.chess960)]]

\* the first legal move of p, in the engine's order, whose encoding is str
FirstEncodedAs(p, str) ==
    LET hits == { i \in DOMAIN LegalTable[p] : str = MoveTable[p][i] }
    IN  IF hits = {} THEN MOVE_NONE
        ELSE LegalTable[p][CHOOSE i \in hits : \A j \in hits : i <= j]

\* to_move comparing the text as it came
to_move_as_given(p, str) == FirstEncodedAs(p, str)

\* UCI::to_move
to_move(p, str) ==
    LET s == IF Len(str) = 5 THEN SubSeq(str, 1, 4) \o LowerChar(CharAt(str, 5)) ELSE str
    IN  FirstEncodedAs(p, s)

\* texts that encode no move, or a move under the other rules or in the
\* wrong case
FixedTexts == {"", "(none)", "0000", "e1g1", "e1h1", "e8c8", "e8a8", "G7G8Q", "g7g8k", "g7g8", "e2e5"}

\* the texts a host passes to to_move on p: the encodings of its legal
\* moves, those with the promotion letter in upper case, and the fixed ones
TextInputs ==
    [p \in QueryPositions |->
        Range(MoveTable[p])
        \cup { SubSeq(t, 1, 4) \o UpperChar(CharAt(t, 5)) : t \in { u \in Range(MoveTable[p]) : Len(u) = 5 } }
        \cup FixedTexts]

(***************************************************************************)
(* The legality verifier (all_possible_moves_match and its inverse).  The  *)
(* host's arrays from[], to[] of length count are a sequence of pairs.     *)
(***************************************************************************)
\* f and t of a legal move as both functions compare them
Normalized(m) ==
    LET f == from_sq(m)
        t == to_sq(m)
    IN  << f, IF type_of(m) = CASTLING
              THEN make_square(IF t > f THEN FILE_G ELSE FILE_C, rank_of(f))
              ELSE t >>

\* f and t of a legal move with a castling left as the engine has it
Unnormalized(m) == << from_sq(m), to_sq(m) >>

\* all_possible_moves_match without the test of the half-move clock
all_possible_moves_match_no_hatch(p, cands) ==
    LET legal == LegalTable[p]
        count == Len(cands)
    IN  IF \E j \in DOMAIN legal : ~\E i \in 1..count : cands[i] = Normalized(legal[j])
        THEN FALSE
        ELSE Len(legal) = count

\* UCI::all_possible_moves_match
all_possible_moves_match(p, cands) ==
    LET legal == LegalTable[p]
        count == Len(cands)
    IN  IF Top(p).rule50 >= 100 THEN TRUE
        ELSE IF \E j \in DOMAIN legal : ~\E i \in 1..count : cands[i] = Normalized(legal[j])
        THEN FALSE
        ELSE Len(legal) = count

\* all_possible_moves_match_inverse comparing with the castling moves as the
\* engine has them
all_possible_moves_match_inverse_raw(p, cands) ==
    LET legal == LegalTable[p]
        count == Len(cands)
        mine  == [j \in DOMAIN legal |-> Unnormalized(legal[j])]
    IN  IF Top(p).rule50 >= 100 THEN TRUE
        ELSE IF \E i \in 1..count : ~\E j \in DOMAIN mine : cands[i] = mine[j]
        THEN FALSE
        ELSE Len(mine) = count

\* UCI::all_possible_moves_match_inverse
all_possible_moves_match_inverse(p, cands) ==
    LET legal == LegalTable[p]
        count == Len(cands)
        mine  == [j \in DOMAIN legal |-> Normalized(legal[j])]
    IN  IF Top(p).rule50 >= 100 THEN TRUE
        ELSE IF \E i \in 1..count : ~\E j \in DOMAIN mine : cands[i] = mine[j]
        THEN FALSE
        ELSE Len(mine) = count

\* the sequence q backwards
Reverse(q) == [i \in 1..Len(q) |-> q[Len(q) + 1 - i]]

\* the engine's own enumeration of p, normalised, as a host would pass it
OwnList(p) == [j \in DOMAIN LegalTable[p] |-> Normalized(LegalTable[p][j])]

\* the candidate lists a host passes on p: the engine's own list, that list
\* backwards, with the castlings left raw, without its first move, with a
\* move repeated at the end, with a wrong first move, with its last move in
\* the place of its first, and the empty list
CandTable ==
    [p \in QueryPositions |->
        LET own == OwnList(p)
        IN  {own, Reverse(own), << >>, [j \in DOMAIN own |-> Unnormalized(LegalTable[p][j])]}
            \cup (IF own = << >> THEN {<< <<0, 0>> >>}
                  ELSE {Tail(own), Append(own, own[1]), [own EXCEPT ![1] = <<0, 0>>],
                        [own EXCEPT ![1] = own[Len(own)]]})]

(***************************************************************************)
(* The session bridge (uci.cpp, StockfishLib.cpp).                         *)
(***************************************************************************)
\* FEN string of the initial position, normal chess
StartFEN == "rnbqkbnr/pppppppp/8/8/8/8/PPPPPPPP/RNBQKBNR w KQkq - 0 1"

\* both sides may castle either way
CastleFEN == "r3k2r/8/8/8/8/8/8/R3K2R w KQkq - 0 1"

\* black is to move and has no legal move
StalemateFEN == "7k/5Q2/6K1/8/8/8/8/8 b - - 0 1"

\* white may capture en passant on d6 and promote on g8
PawnFEN == "4k3/6P1/8/3pP3/8/8/8/4K3 w - d6 0 2"

\* the encodings a host passes to cpp_set_position
FenInputs == {StartFEN, CastleFEN, StalemateFEN, PawnFEN}

\* the (from, to) pairs a host passes to cpp_call_move
MoveInputs ==
    {<<12, 28>>, <<52, 36>>, <<51, 35>>, <<0, 56>>, <<4, 12>>}

\* CastlingSide: KING_SIDE, QUEEN_SIDE
SideInputs == {0, 1}

\* the origin a host passes to cpp_enpassant_move
EnpassantInputs == {36}

\* the (from, to) pairs a host passes to cpp_promotion_move
PromotionInputs == {<<54, 62>>}

\* Position _pos before any set()
NoPosition ==
    [board |-> [sq \in Squares |-> "."], side |-> "w", gamePly |-> 0, chess960 |-> FALSE, st |-> << >>]

\* std::promise<Move>(): no future taken, no value set
FreshPromise == [futureTaken |-> FALSE, value |-> << >>]

\* Options["UCI_Chess960"], converted to bool
IsChess960(m) == OptionDouble(m[FindKey(m, "UCI_Chess960")]).num # 0

\* StateListPtr(new std::deque<StateInfo>(1)) and pos.set(fen, ..., &states->back(), ...)
SetTable == [fen \in FenInputs |-> [chess960 \in BOOLEAN |-> ParseFen(fen, chess960)]]

SetFen(fen, chess960) == SetTable[fen][chess960]

\* Threads.setup(pos, states): the pool takes the position as its root
PoolSetup(th) == [th EXCEPT !.moves = << >>]

\* make_castling_move(us, cs, pos): the king takes its own rook
make_castling_move(us, cs, p) ==
    LET ksq == IF us = "w" THEN 4 ELSE 60
    IN  make_typed(CASTLING, ksq, IF cs = 0 THEN ksq + 3 ELSE ksq - 4, 2)

\* make_enpassant_move(from, pos): the pawn takes on the en passant square
make_enpassant_move(from, p) == make_typed(ENPASSANT, from, Top(p).ep % 64, 2)

\* make_promotion_move(from, to): the pawn becomes a queen
make_promotion_move(from, to) == make_typed(PROMOTION, from, to, 5)

\* the move a host may ask for: legal in the position
IsLegal(p, m) ==
    /\ ColorOf(p.board[from_sq(m)]) = p.side
    /\ m \in PieceMoves(p, from_sq(m)) \cup CastlingMoves(p)
    /\ LeavesKingSafe(p, m)

\* think() with the castling move handed on as the engine gave it
ThinkResultRaw(m) == m

\* the tail of UCI::think: a castling move is rewritten to the king's landing
ThinkResult(m) ==
    IF m # MOVE_NONE /\ type_of(m) = CASTLING
    THEN LET from == from_sq(m)
             to   == to_sq(m)
         IN  make_move(from, make_square(IF to > from THEN FILE_G ELSE FILE_C, rank_of(from)))
    ELSE m

\* the moves a search is let end with here: the host's own inputs, the four
\* castling moves, an en passant capture, a promotion, and MOVE_NONE
BestInputs ==
    { make_move(ft[1], ft[2]) : ft \in MoveInputs }
    \cup { make_castling_move(us, cs, NoPosition) : us \in {"w", "b"}, cs \in SideInputs }
    \cup { make_typed(ENPASSANT, 36, 43, 2) }
    \cup { make_promotion_move(ft[1], ft[2]) : ft \in PromotionInputs }
    \cup { MOVE_NONE }

\* the side to move has a legal move
HasLegalMove(p) ==
    \/ \E from \in { sq \in Squares : ColorOf(p.board[sq]) = p.side } :
          \E m \in PieceMoves(p, from) : LeavesKingSafe(p, m)
    \/ \E m \in CastlingMoves(p) : LeavesKingSafe(p, m)

\* what the search deposits: a legal move, MOVE_NONE when there is none
IsBestMove(p, m) == IF m = MOVE_NONE THEN ~HasLegalMove(p) ELSE IsLegal(p, m)

NoMark == << >>

\* cpp_init_stockfish(skill, time)
CppInit(skill, time) ==
    /\ phase \in {"Uninit", "Ready"}
    /\ insert_order + Len(InitTable(skill, time, 0)) <= MaxOrder
    /\ LET r == UciInitOptions(om, insert_order, skill, time, 0)
       IN  /\ om' = r.map
           /\ insert_order' = r.order
    /\ pos' = SetFen(StartFEN, IsChess960(om'))
    /\ states' = << pos'.st[1] >>
    /\ threads' = [moves |-> << >>, pMove |-> FreshPromise, searching |-> {}]
    /\ phase' = "Ready"
    /\ ret' = << >>
    /\ last' = [op |-> "init", n |-> Len(moveHistory)]
    /\ mark' = NoMark
    /\ fired' = << >>
    /\ raised' = FALSE
    /\ applied' = << >>
    /\ UNCHANGED <<moveHistory, nwrites, via>>

\* UCI::set_position
SetPosition(fen) ==
    /\ phase = "Ready"
    /\ pos' = SetFen(fen, IsChess960(om))
    /\ states' = << pos'.st[1] >>
    /\ threads' = PoolSetup(threads)
    /\ ret' = << >>
    /\ last' = [op |-> "set_position", n |-> Len(moveHistory)]
    /\ mark' = NoMark
    /\ applied' = << >>
    /\ UNCHANGED <<moveHistory, phase>>

\* new_game with the move history left as it is
NewGameKeepHistory ==
    /\ phase = "Ready"
    /\ pos' = SetFen(StartFEN, IsChess960(om))
    /\ states' = << pos'.st[1] >>
    /\ threads' = PoolSetup(threads)
    /\ ret' = << >>
    /\ last' = [op |-> "new_game", n |-> Len(moveHistory)]
    /\ mark' = NoMark
    /\ applied' = << >>
    /\ UNCHANGED <<moveHistory, phase>>

\* UCI::new_game
NewGame ==
    /\ phase = "Ready"
    /\ pos' = SetFen(StartFEN, IsChess960(om))
    /\ states' = << pos'.st[1] >>
    /\ moveHistory' = << >>
    /\ threads' = PoolSetup(threads)
    /\ ret' = << >>
    /\ last' = [op |-> "new_game", n |-> Len(moveHistory)]
    /\ mark' = NoMark
    /\ applied' = << >>
    /\ UNCHANGED phase

\* after_move, following pos.do_move(m, *tmp) with tmp = new StateInfo
ApplyMove(m) ==
    /\ phase = "Ready"
    /\ Len(moveHistory) < MaxPly
    /\ IsLegal(pos, m)
    /\ pos' = DoMoveEngine(pos, m, TRUE)
    /\ threads' = [threads EXCEPT !.moves = Append(threads.moves, m)]
    /\ moveHistory' = Append(moveHistory, m)
    /\ ret' = << >>
    /\ last' = [op |-> "apply", n |-> Len(moveHistory)]
    /\ mark' = << [fen |-> Fen(pos), history |-> moveHistory] >>
    /\ applied' = Append(applied, m)
    /\ UNCHANGED <<states, phase>>

\* UCI::init_move
InitMove(from, to) == ApplyMove(make_move(from, to))

\* UCI::castle_move
CastleMove(cs) == ApplyMove(make_castling_move(pos.side, cs, pos))

\* UCI::enpassant_move
EnpassantMove(from) == ApplyMove(make_enpassant_move(from, pos))

\* UCI::promotion_move
PromotionMove(from, to) == ApplyMove(make_promotion_move(from, to))

\* undo_move with the move left on the history
UndoMoveKeepHistory ==
    /\ phase = "Ready"
    /\ moveHistory # << >>
    /\ Len(pos.st) > 1
    /\ pos' = UndoMoveEngine(pos, moveHistory[Len(moveHistory)])
    /\ threads' = [threads EXCEPT !.moves = SubSeq(threads.moves, 1, Len(threads.moves) - 1)]
    /\ ret' = << >>
    /\ last' = [op |-> IF last.op = "apply" THEN "apply_undo" ELSE "undo", n |-> Len(moveHistory)]
    /\ mark' = IF last.op = "apply" THEN mark ELSE NoMark
    /\ applied' = SubSeq(applied, 1, Len(applied) - 1)
    /\ UNCHANGED <<moveHistory, states, phase>>

\* UCI::undo_move.  The engine unmakes a move only when one was made on this
\* position (the current StateInfo has a previous one).
UndoMove ==
    /\ phase = "Ready"
    /\ moveHistory # << >>
    /\ Len(pos.st) > 1
    /\ pos' = UndoMoveEngine(pos, moveHistory[Len(moveHistory)])
    /\ threads' = [threads EXCEPT !.moves = SubSeq(threads.moves, 1, Len(threads.moves) - 1)]
    /\ moveHistory' = SubSeq(moveHistory, 1, Len(moveHistory) - 1)
    /\ ret' = << >>
    /\ last' = [op |-> IF last.op = "apply" THEN "apply_undo" ELSE "undo", n |-> Len(moveHistory)]
    /\ mark' = IF last.op = "apply" THEN mark ELSE NoMark
    /\ applied' = SubSeq(applied, 1, Len(applied) - 1)
    /\ UNCHANGED <<states, phase>>

\* the ways UCI::undo_move ends when there is no move to unmake: the process
\* traps in the library or in the engine, or runs on with its memory overwritten
UndoOutcomes == {"Failed", "Corrupt"}

\* UCI::undo_move without a move made on this position.  On an empty history
\* moveHistory.back() and pop_back() are undefined; on a history left over from
\* an earlier position the engine unmakes a move it never made, through a
\* StateInfo that has no previous one.  The code tests neither.
UndoMoveUnmade ==
    /\ phase = "Ready"
    /\ moveHistory = << >> \/ Len(pos.st) = 1
    /\ \E o \in UndoOutcomes : phase' = o
    /\ ret' = << >>
    /\ last' = [op |-> "undo", n |-> Len(moveHistory)]
    /\ mark' = NoMark
    /\ UNCHANGED <<pos, states, moveHistory, threads, applied>>

\* UCI::think up to ftr.get(): the future is taken and the search started on
\* the root moves of the position.
\* get_future() on a promise whose future was taken before throws
\* std::future_error, which leaves the extern "C" call: the session is lost.
ThinkStart ==
    /\ phase = "Ready"
    /\ IF threads.pMove.futureTaken
       THEN phase' = "Failed" /\ UNCHANGED threads
       ELSE /\ threads' = [threads EXCEPT !.pMove.futureTaken = TRUE,
                                          !.searching = { b \in BestInputs : IsBestMove(pos, b) }]
            /\ phase' = "SearchInFlight"
    /\ ret' = << >>
    /\ last' = [op |-> "think", n |-> Len(moveHistory)]
    /\ mark' = NoMark
    /\ UNCHANGED <<pos, states, moveHistory, applied>>

\* the search worker sets the promise's value
WorkerDeposit ==
    /\ phase = "SearchInFlight"
    /\ threads.pMove.value = << >>
    /\ \E m \in threads.searching :
         threads' = [threads EXCEPT !.pMove.value = << m >>, !.searching = {}]
    /\ UNCHANGED <<pos, states, moveHistory, phase, ret, last, mark, applied>>

\* think() that does not wait for the worker: with nothing deposited it
\* returns MOVE_NONE
ThinkReturnEarly ==
    /\ phase = "SearchInFlight"
    /\ threads' = [threads EXCEPT !.pMove = FreshPromise]
    /\ ret' = IF threads.pMove.value = << >> THEN << [raw |-> MOVE_NONE, move |-> MOVE_NONE] >>
              ELSE << [raw |-> threads.pMove.value[1], move |-> ThinkResult(threads.pMove.value[1])] >>
    /\ phase' = "Ready"
    /\ UNCHANGED <<pos, states, moveHistory, last, mark, applied>>

\* think() with the consumed promise left in place
ThinkReturnKeepPromise ==
    /\ phase = "SearchInFlight"
    /\ threads.pMove.value # << >>
    /\ ret' = << [raw |-> threads.pMove.value[1], move |-> ThinkResult(threads.pMove.value[1])] >>
    /\ phase' = "Ready"
    /\ UNCHANGED <<pos, states, moveHistory, last, mark, threads, applied>>

\* think() that plays the move it found before returning it
ThinkReturnPlays ==
    /\ phase = "SearchInFlight"
    /\ threads.pMove.value # << >>
    /\ threads' = [threads EXCEPT !.pMove = FreshPromise]
    /\ ret' = << [raw |-> threads.pMove.value[1], move |-> ThinkResult(threads.pMove.value[1])] >>
    /\ phase' = "Ready"
    /\ IF threads.pMove.value[1] = MOVE_NONE
       THEN UNCHANGED <<pos, moveHistory>>
       ELSE /\ pos' = DoMoveEngine(pos, threads.pMove.value[1], TRUE)
            /\ moveHistory' = Append(moveHistory, threads.pMove.value[1])
    /\ UNCHANGED <<states, last, mark, applied>>

\* UCI::think from ftr.get() on
ThinkReturn ==
    /\ phase = "SearchInFlight"
    /\ threads.pMove.value # << >>
    /\ threads' = [threads EXCEPT !.pMove = FreshPromise]
    /\ ret' = << [raw |-> threads.pMove.value[1], move |-> ThinkResult(threads.pMove.value[1])] >>
    /\ phase' = "Ready"
    /\ UNCHANGED <<pos, states, moveHistory, last, mark, applied>>

SessInit ==
    /\ phase = "Uninit"
    /\ pos = NoPosition
    /\ states = << >>
    /\ moveHistory = << >>
    /\ threads = [moves |-> << >>, pMove |-> FreshPromise, searching |-> {}]
    /\ ret = << >>
    /\ last = [op |-> "none", n |-> 0]
    /\ mark = NoMark
    /\ applied = << >>

\* no codec or verifier call is made
QryIdle ==
    /\ qpos = NoPosition
    /\ qcall = << >>
    /\ nthink = 0
    /\ heapStates = 0

RegInit ==
    /\ om = << >>
    /\ insert_order = 0
    /\ nwrites = 0
    /\ via = << >>

ObsInit ==
    /\ fired = << >>
    /\ raised = FALSE

CellIdle ==
    /\ opt = OptionButton("", 0)
    /\ arg = NoArg
    /\ prev = OptionButton("", 0)

OptInit == RegInit /\ ObsInit /\ CellIdle /\ SessInit /\ QryIdle

OptNext ==
    \/ \E skill \in SkillInputs, time \in TimeInputs : OptionsInit(skill, time) /\ UNCHANGED <<cellVars, sessVars, qryVars, cntVars>>
    \/ \E name \in LookupNames, v \in RegistryValues : Write(name, v) /\ UNCHANGED <<cellVars, sessVars, qryVars, cntVars>>
    \/ \E name \in LookupNames : Lookup(name) /\ UNCHANGED <<cellVars, sessVars, qryVars, cntVars>>

vars == <<regVars, obsVars, cellVars, sessVars, qryVars, cntVars>>

\* the registry: initialisation, writes and lookups by name
SpecOptions == OptInit /\ [][OptNext]_vars

OptionInit ==
    /\ RegInit
    /\ ObsInit
    /\ opt \in RegisteredOptions \cup {UnregisteredOption}
    /\ arg = NoArg
    /\ prev = opt
    /\ SessInit
    /\ QryIdle

OptionNext == \E v \in WriteValues : OptionWrite(v) /\ UNCHANGED <<regVars, sessVars, qryVars, cntVars>>

\* one Option under every sequence of writes
SpecOption == OptionInit /\ [][OptionNext]_vars

Init == RegInit /\ ObsInit /\ CellIdle /\ SessInit /\ QryIdle

Next ==
    \/ \E skill \in SessionSkillInputs, time \in TimeInputs : CppInit(skill, time) /\ UNCHANGED <<cellVars, qryVars, cntVars>>
    \/ \E fen \in FenInputs : SetPosition(fen) /\ UNCHANGED <<regVars, obsVars, cellVars, qryVars, cntVars>>
    \/ NewGame /\ UNCHANGED <<regVars, obsVars, cellVars, qryVars, cntVars>>
    \/ \E ft \in MoveInputs : InitMove(ft[1], ft[2]) /\ UNCHANGED <<regVars, obsVars, cellVars, qryVars, cntVars>>
    \/ \E cs \in SideInputs : CastleMove(cs) /\ UNCHANGED <<regVars, obsVars, cellVars, qryVars, cntVars>>
    \/ \E from \in EnpassantInputs : EnpassantMove(from) /\ UNCHANGED <<regVars, obsVars, cellVars, qryVars, cntVars>>
    \/ \E ft \in PromotionInputs : PromotionMove(ft[1], ft[2]) /\ UNCHANGED <<regVars, obsVars, cellVars, qryVars, cntVars>>
    \/ UndoMove /\ UNCHANGED <<regVars, obsVars, cellVars, qryVars, cntVars>>
    \/ ThinkStart /\ UNCHANGED <<regVars, obsVars, cellVars, qryVars, cntVars>>
    \/ WorkerDeposit /\ UNCHANGED <<regVars, obsVars, cellVars, qryVars, cntVars>>
    \/ ThinkReturn /\ UNCHANGED <<regVars, obsVars, cellVars, qryVars, cntVars>>

\* the game session: one host thread calling the bridge, one search worker
Spec == Init /\ [][Next]_vars

ThinkNext ==
    \/ \E skill \in SessionSkillInputs, time \in TimeInputs : CppInit(skill, time) /\ UNCHANGED <<cellVars, qryVars, cntVars>>
    \/ \E fen \in FenInputs : SetPosition(fen) /\ UNCHANGED <<regVars, obsVars, cellVars, qryVars, cntVars>>
    \/ NewGame /\ UNCHANGED <<regVars, obsVars, cellVars, qryVars, cntVars>>
    \/ nthink < MaxThinks /\ ThinkStart /\ nthink' = nthink + 1 /\ UNCHANGED <<regVars, obsVars, cellVars, qryVars, heapStates>>
    \/ WorkerDeposit /\ UNCHANGED <<regVars, obsVars, cellVars, qryVars, cntVars>>
    \/ ThinkReturn /\ UNCHANGED <<regVars, obsVars, cellVars, qryVars, cntVars>>

\* searches one after the other, on the positions the host sets
SpecThink == Init /\ [][ThinkNext]_vars

\* the worker thread runs when it has a search to end; the host thread,
\* blocked in ftr.get(), runs on when the value is set
ThinkFairness ==
    /\ WF_vars(WorkerDeposit /\ UNCHANGED <<regVars, obsVars, cellVars, qryVars, cntVars>>)
    /\ WF_vars(ThinkReturn /\ UNCHANGED <<regVars, obsVars, cellVars, qryVars, cntVars>>)

\* the same searches with both threads scheduled
SpecThinkFair == Init /\ [][ThinkNext]_vars /\ ThinkFairness

\* the heap-allocated StateInfo objects linked into the position
HeapInChain(p) == Cardinality({ i \in 1..Len(p.st) : p.st[i].heap })

\* what becomes of the `new StateInfo` objects in each call: one is made by
\* every kind of move, Position::undo_move(m, RELEASE) deletes the one it
\* unlinks, Position::release() deletes those linked into the position;
\* set_position and init call neither
LifeNext ==
    \/ \E skill \in SessionSkillInputs, time \in TimeInputs : CppInit(skill, time) /\ UNCHANGED <<cellVars, qryVars, cntVars>>
    \/ \E fen \in FenInputs : SetPosition(fen) /\ UNCHANGED <<regVars, obsVars, cellVars, qryVars, cntVars>>
    \/ NewGame /\ heapStates' = heapStates - HeapInChain(pos) /\ UNCHANGED <<regVars, obsVars, cellVars, qryVars, nthink>>
    \/ \E ft \in MoveInputs : heapStates < MaxHeap /\ InitMove(ft[1], ft[2]) /\ heapStates' = heapStates + 1 /\ UNCHANGED <<regVars, obsVars, cellVars, qryVars, nthink>>
    \/ \E cs \in SideInputs : heapStates < MaxHeap /\ CastleMove(cs) /\ heapStates' = heapStates + 1 /\ UNCHANGED <<regVars, obsVars, cellVars, qryVars, nthink>>
    \/ \E from \in EnpassantInputs : heapStates < MaxHeap /\ EnpassantMove(from) /\ heapStates' = heapStates + 1 /\ UNCHANGED <<regVars, obsVars, cellVars, qryVars, nthink>>
    \/ \E ft \in PromotionInputs : heapStates < MaxHeap /\ PromotionMove(ft[1], ft[2]) /\ heapStates' = heapStates + 1 /\ UNCHANGED <<regVars, obsVars, cellVars, qryVars, nthink>>
    \/ UndoMove /\ heapStates' = heapStates - 1 /\ UNCHANGED <<regVars, obsVars, cellVars, qryVars, nthink>>
    \/ UndoMoveUnmade /\ UNCHANGED <<regVars, obsVars, cellVars, qryVars, cntVars>>

\* the moves, undos and resets of a session, with the heap and with undo_move
\* called whatever the history holds
SpecLife == Init /\ [][LifeNext]_vars

\* UCI::is_game_draw
is_game_draw(p) ==
    LET repeat     == three_fold_repetition(p)
        fivetyMove == rule50_count(p)
    IN  IF ~repeat /\ fivetyMove < 50 THEN FALSE ELSE TRUE

\* UCI::to_move(pos, str)
QueryToMove ==
    \E str \in TextInputs[qpos] :
        qcall' = << [op |-> "to_move", str |-> str, out |-> to_move(qpos, str)] >>

\* UCI::all_possible_moves_match(pos, from, to, count)
QueryMatch ==
    \E cands \in CandTable[qpos] :
        qcall' = << [op |-> "match", cands |-> cands, out |-> all_possible_moves_match(qpos, cands)] >>

\* UCI::all_possible_moves_match_inverse(pos, from, to, count)
QueryMatchInverse ==
    \E cands \in CandTable[qpos] :
        qcall' = << [op |-> "match_inverse", cands |-> cands,
                     out |-> all_possible_moves_match_inverse(qpos, cands)] >>

\* UCI::is_game_draw(pos)
QueryIsGameDraw ==
    qcall' = << [op |-> "is_game_draw", out |-> is_game_draw(qpos)] >>

\* the moves the search may end with on p
SearchResults(p) == IF LegalTable[p] = << >> THEN {MOVE_NONE} ELSE Range(LegalTable[p])

\* UCI::think on qpos, the search and the rewrite of its result in one step
QueryThink ==
    \E m \in SearchResults(qpos) :
        qcall' = << [op |-> "think", m |-> m, out |-> ThinkResult(m)] >>

\* UCI::move(m, pos.is_chess960())
QueryMove ==
    \E m \in Range(LegalTable[qpos]) \cup {MOVE_NONE, MOVE_NULL} :
        qcall' = << [op |-> "move", m |-> m, out |-> move(m, qpos.chess960)] >>

QryInit ==
    /\ qpos \in QueryPositions
    /\ qcall = << >>
    /\ nthink = 0
    /\ heapStates = 0

QueryInit == RegInit /\ ObsInit /\ CellIdle /\ SessInit /\ QryInit

QueryNext ==
    \/ QueryThink /\ UNCHANGED <<regVars, obsVars, cellVars, sessVars, qpos, cntVars>>
    \/ QueryMove /\ UNCHANGED <<regVars, obsVars, cellVars, sessVars, qpos, cntVars>>
    \/ QueryIsGameDraw /\ UNCHANGED <<regVars, obsVars, cellVars, sessVars, qpos, cntVars>>
    \/ QueryToMove /\ UNCHANGED <<regVars, obsVars, cellVars, sessVars, qpos, cntVars>>
    \/ QueryMatch /\ UNCHANGED <<regVars, obsVars, cellVars, sessVars, qpos, cntVars>>
    \/ QueryMatchInverse /\ UNCHANGED <<regVars, obsVars, cellVars, sessVars, qpos, cntVars>>

\* the codec and the verifier called on a position, in any order
SpecQuery == QueryInit /\ [][QueryNext]_vars

(***************************************************************************)
(* Claims about a write to one Option (SpecOption).                        *)
(***************************************************************************)
Written == arg # NoArg

\* the value written
ArgV == arg[1]

\* the callbacks a write to prev must have made when it was accepted
FiredOnce == IF prev.on_change # "" THEN << [cb |-> prev.on_change, seen |-> opt] >> ELSE << >>

InRange(o, f) == ~FloatLess(f, o.min) /\ ~FloatGreater(f, o.max)

\* C1: a write to a spin option of a number outside [min, max] changes nothing
\* and calls nothing; a number inside [min, max] becomes currentValue and the
\* option's on_change is called exactly once, seeing the new value; so a
\* value accepted by a write is always within [min, max].
C1_SpinWrite ==
    (Written /\ prev.type = "spin" /\ stof(ArgV).ok) =>
        /\ raised = FALSE
        /\ IF InRange(prev, stof(ArgV))
           THEN /\ opt = [prev EXCEPT !.currentValue = ArgV]
                /\ fired = FiredOnce
                /\ InRange(opt, stof(opt.currentValue))
           ELSE /\ opt = prev
                /\ fired = << >>

\* a spin option with a callback has accepted one number and refused another
C1_Witness ==
    /\ Written /\ prev.type = "spin" /\ prev.on_change # ""
    /\ prev.currentValue = "131072"
    /\ ArgV = "131073"
    /\ opt = prev

\* C2: a write to a check option of anything but "true" or "false" changes
\* nothing and calls nothing.
C2_CheckWrite ==
    (Written /\ prev.type = "check" /\ ArgV \notin {"true", "false"}) =>
        /\ opt = prev
        /\ fired = << >>
        /\ raised = FALSE

\* "True" was refused by a check option that had been set to "true" before
C2_Witness ==
    /\ Written /\ prev.type = "check"
    /\ ArgV = "True"
    /\ prev.currentValue = "true"
    /\ opt.currentValue = "true"

\* C19: a write to a button is never refused, whatever the value, the empty
\* string too: the button's on_change, if it has one, is called exactly once
\* and the stored value stays as it was.
C19_ButtonWrite ==
    (Written /\ prev.type = "button") =>
        /\ raised = FALSE
        /\ opt = prev
        /\ fired = IF prev.on_change # "" THEN << [cb |-> prev.on_change, seen |-> prev] >> ELSE << >>

\* the empty string written to a button called its on_change
C19_Witness ==
    /\ Written /\ prev.type = "button"
    /\ ArgV = ""
    /\ Len(fired) = 1 /\ fired[1].cb = prev.on_change /\ prev.on_change # ""
    /\ opt = prev

\* C3: a write to a spin option of a non-empty text that holds no number is
\* dropped without an error: nothing raised, nothing changed, nothing called.
C3_SpinUnparsable ==
    (Written /\ prev.type = "spin" /\ ArgV # "" /\ ~stof(ArgV).ok) =>
        /\ raised = FALSE
        /\ opt = prev
        /\ fired = << >>

(***************************************************************************)
(* Claims about the registry (SpecOptions).                                *)
(***************************************************************************)
\* a name with every letter in lower case
FoldCase(s) == [i \in 1..Len(s) |-> tolower(CharAt(s, i))]

FoldTable == [n \in LookupNames |-> FoldCase(n)]

SameIgnoringCase(a, b) == FoldTable[a] = FoldTable[b]

\* C4: the options printed are all the registered options, each once, in
\* ascending order of insertion index.
C4_RenderAll ==
    LET ks == RenderKeys(om)
    IN  /\ Len(Render(om)) = Cardinality(DOMAIN om)
        /\ Range(ks) = DOMAIN om
        /\ \A i, j \in 1..Len(ks) : i < j => om[ks[i]].idx < om[ks[j]].idx

\* C5: registering a name that is present changes nothing of its entry
\* (insertion index, kind, default, current value); an insertion index, once
\* assigned, never changes.
C5_RegisterNoOp ==
    [][\A k \in DOMAIN om :
          /\ k \in DOMAIN om'
          /\ om'[k].idx = om[k].idx
          /\ insert_order' # insert_order =>
                /\ om'[k].type = om[k].type
                /\ om'[k].defaultValue = om[k].defaultValue
                /\ om'[k].currentValue = om[k].currentValue]_vars

\* no two stored keys are equal ignoring case
NoCaseDuplicates == \A a, b \in DOMAIN om : SameIgnoringCase(a, b) => a = b

\* a call through name n reaches the one entry equal to n ignoring case: no
\* entry is added, every other entry is left as it was, and the callback, if
\* one is made, sees that entry
SameEntry ==
    via' # << >> =>
        /\ DOMAIN om' = DOMAIN om
        /\ \E k \in DOMAIN om : SameIgnoringCase(k, via'[1])
        /\ \A k \in DOMAIN om : ~SameIgnoringCase(k, via'[1]) => om'[k] = om[k]
        /\ fired' # << >> =>
             \E k \in DOMAIN om' : SameIgnoringCase(k, via'[1]) /\ fired'[1].seen = om'[k]

\* C6: lookup by name ignores case: names that differ only in case address
\* the same single entry, and the registry never holds two such keys.
C6_CaseInsensitive == []NoCaseDuplicates /\ [][SameEntry]_vars

\* a write through "HASH" was accepted by the entry registered as "Hash"
C6_Witness ==
    /\ via = << "HASH" >>
    /\ DOMAIN om # {}
    /\ "HASH" \notin DOMAIN om
    /\ om["Hash"].currentValue = "7"
    /\ fired = << [cb |-> "on_hash_size", seen |-> om["Hash"]] >>

(***************************************************************************)
(* Claims about the game session (Spec).                                   *)
(***************************************************************************)
\* C7: after new_game, whatever moves, undos and searches came before, the
\* move history is empty and the position's encoding is the standard initial
\* encoding.
C7_NewGame ==
    last.op = "new_game" => moveHistory = << >> /\ Fen(pos) = StartFEN

\* new_game has just run on a session whose history held two moves
C7_Witness ==
    last = [op |-> "new_game", n |-> 2] /\ moveHistory = << >> /\ Fen(pos) = StartFEN

\* C8: a legal move applied and at once undone leaves the position's encoding
\* and the move history exactly as they were before the move.
C8_RoundTrip ==
    last.op = "apply_undo" =>
        /\ mark # NoMark
        /\ Fen(pos) = mark[1].fen
        /\ moveHistory = mark[1].history

\* initialise, e2-e4, undo: the initial encoding is back and the history empty
C8_Witness ==
    /\ last = [op |-> "apply_undo", n |-> 1]
    /\ mark = << [fen |-> StartFEN, history |-> << >>] >>
    /\ threads.moves = << >>
    /\ Fen(pos) = StartFEN
    /\ moveHistory = << >>

\* C9: right after set_position or an initialisation the move history is
\* empty and the state history holds only the snapshot of the position set.
C9_ResetHistories ==
    last.op \in {"set_position", "init"} =>
        /\ moveHistory = << >>
        /\ Len(pos.st) = 1
        /\ states = << pos.st[1] >>

\* C10: when the search's result is a castling move, think() returns the move
\* from the king's square to file g (rook square above the king's) or file c
\* of the king's rank; any other result, MOVE_NONE too, is returned as it is.
C10_ThinkCastling ==
    ret # << >> =>
        LET raw == ret[1].raw
            out == ret[1].move
            k   == (raw \div 64) % 64
            r   == raw % 64
        IN  IF raw \div 16384 = 3
            THEN /\ out \div 16384 = 0
                 /\ (out \div 64) % 64 = k
                 /\ out % 64 = 8 * (k \div 8) + (IF r > k THEN 6 ELSE 2)
            ELSE out = raw

\* black castled queen-side in the search: e8 takes a8 comes back as e8-c8
C10_Witness ==
    /\ ret # << >>
    /\ type_of(ret[1].raw) = CASTLING
    /\ from_sq(ret[1].raw) = 60 /\ to_sq(ret[1].raw) = 56
    /\ ret[1].move = make_move(60, 58)

\* C20: between two settings of the position the move history is the moves
\* applied and not undone, in the order they were applied: an apply of any
\* kind appends its move, an undo removes the newest.
C20_HistoryIsApplied == phase # "Uninit" => moveHistory = applied

(***************************************************************************)
(* Claims about the codec and the verifier (SpecQuery).                    *)
(***************************************************************************)
\* the last call was op
Called(op) == qcall # << >> /\ qcall[1].op = op

\* C11: for a castling move the destination think() returns is the one
\* UCI::move writes under the position's rules: the king's landing square
\* without Chess960, the rook's own square with it.
C11_RewriteConsistent ==
    Called("think") /\ type_of(qcall[1].m) = CASTLING =>
        /\ square(to_sq(qcall[1].out)) = SubSeq(move(qcall[1].m, qpos.chess960), 3, 4)
        /\ to_sq(qcall[1].out) =
             IF qpos.chess960 THEN to_sq(qcall[1].m)
             ELSE 8 * (from_sq(qcall[1].m) \div 8) + (IF to_sq(qcall[1].m) > from_sq(qcall[1].m) THEN 6 ELSE 2)

\* C14: is_game_draw is true exactly when the position is a three-fold
\* repetition or its half-move clock, in plies, has reached 100.
C14_IsDraw ==
    Called("is_game_draw") =>
        (qcall[1].out <=> (three_fold_repetition(qpos) \/ Top(qpos).rule50 >= 100))

\* the text with a fifth and last character in lower case
FoldFifth(t) ==
    IF Len(t) = 5 /\ \E i \in 1..Len(Upper) : CharAt(Upper, i) = CharAt(t, 5)
    THEN SubSeq(t, 1, 4) \o CharAt(Lower, IndexIn(Upper, CharAt(t, 5)))
    ELSE t

\* C15: to_move returns a move only if it is a legal move of the position
\* whose encoding is the text (its fifth character in lower case) and
\* MOVE_NONE only if no legal move encodes to it; so the encoding of a legal
\* move decodes to that move.
C15_Decode ==
    Called("to_move") =>
        LET t     == FoldFifth(qcall[1].str)
            out   == qcall[1].out
            legal == Range(LegalTable[qpos])
        IN  /\ out # MOVE_NONE => out \in legal /\ move(out, qpos.chess960) = t
            /\ out = MOVE_NONE => \A m \in legal : move(m, qpos.chess960) # t
            /\ \A m \in legal : qcall[1].str = move(m, qpos.chess960) => out = m

\* "g7g8Q" decodes to the pawn's promotion to a queen
C15_Witness ==
    /\ Called("to_move")
    /\ qcall[1].str = "g7g8Q"
    /\ qcall[1].out = make_typed(PROMOTION, 54, 62, 5)
    /\ qcall[1].out \in Range(LegalTable[qpos])

\* the king's landing square of a castling move, the destination otherwise
Landing(m) ==
    IF m \div 16384 = 3
    THEN 8 * (((m \div 64) % 64) \div 8) + (IF m % 64 > (m \div 64) % 64 THEN 6 ELSE 2)
    ELSE m % 64

\* the pairs (origin, landing) of the legal moves of the position called on
OwnPairs == [j \in DOMAIN LegalTable[qpos] |-> << (LegalTable[qpos][j] \div 64) % 64, Landing(LegalTable[qpos][j]) >>]

\* C16: below the terminal clock all_possible_moves_match is true only if the
\* candidates are as many as the legal moves and candidate i is legal move i
\* (castling destinations normalised) for every i.
C16_MatchOrdered ==
    Called("match") /\ Top(qpos).rule50 < 100 /\ qcall[1].out =>
        /\ Len(qcall[1].cands) = Len(OwnPairs)
        /\ \A i \in DOMAIN OwnPairs : qcall[1].cands[i] = OwnPairs[i]

\* q is r in some order
SameBag(q, r) ==
    /\ Len(q) = Len(r)
    /\ \A x \in Range(q) \cup Range(r) :
          Cardinality({ i \in DOMAIN q : q[i] = x }) = Cardinality({ i \in DOMAIN r : r[i] = x })

\* C17: all_possible_moves_match_inverse is true of the engine's own legal
\* moves (castling destinations normalised) in any order, also when there
\* are none.
C17_SelfConsistent ==
    Called("match_inverse") /\ SameBag(qcall[1].cands, OwnPairs) => qcall[1].out

\* both castlings among 26 legal moves, passed backwards, are accepted
C17_Witness ==
    /\ Called("match_inverse")
    /\ Len(OwnPairs) = 26
    /\ <<4, 6>> \in Range(OwnPairs) /\ <<4, 2>> \in Range(OwnPairs)
    /\ qcall[1].cands # OwnPairs
    /\ SameBag(qcall[1].cands, OwnPairs)
    /\ qcall[1].out

\* C18: with the half-move clock at 100 plies or more both functions are true
\* of every candidate list; below 100 the comparison alone decides.
C18_EscapeHatch ==
    /\ Called("match") =>
          qcall[1].out =
            (\/ Top(qpos).rule50 >= 100
             \/ /\ Range(OwnPairs) \subseteq Range(qcall[1].cands)
                /\ Len(qcall[1].cands) = Len(OwnPairs))
    /\ Called("match_inverse") =>
          qcall[1].out =
            (\/ Top(qpos).rule50 >= 100
             \/ /\ Range(qcall[1].cands) \subseteq Range(OwnPairs)
                /\ Len(qcall[1].cands) = Len(OwnPairs))

\* at clock 100 the empty list matches a position that has legal moves
C18_Witness ==
    /\ Called("match")
    /\ Top(qpos).rule50 = 100
    /\ LegalTable[qpos] # << >>
    /\ qcall[1].cands = << >>
    /\ qcall[1].out

(***************************************************************************)
(* Claims about think() and its promise (SpecThink).                       *)
(***************************************************************************)
\* at most one search is pending, and only on a promise whose future this
\* think() took: no think() finds a consumed promise, the future is taken
\* before the search runs, and between two searches the promise is a new one
OnePending ==
    /\ phase # "Failed"
    /\ phase = "SearchInFlight" => threads.pMove.futureTaken /\ Len(threads.pMove.value) <= 1
    /\ phase = "Ready" => threads.pMove = FreshPromise

\* a deposited result stays until think() reads it, and is what think() reads
NoResultLost ==
    phase = "SearchInFlight" /\ threads.pMove.value # << >> =>
        \/ threads'.pMove.value = threads.pMove.value /\ phase' = "SearchInFlight"
        \/ phase' = "Ready" /\ ret' # << >> /\ ret'[1].raw = threads.pMove.value[1]

\* C12: over any sequence of think() calls one search is pending at a time:
\* the future is taken before the search starts, the worker's one result is
\* read by that think(), and the promise is replaced before the next search.
C12_OnePendingSearch == []OnePending /\ [][NoResultLost]_vars

\* the third search of a session is in flight and has its result deposited
C12_Witness ==
    /\ nthink = 3
    /\ phase = "SearchInFlight"
    /\ threads.pMove.futureTaken
    /\ threads.pMove.value # << >>

\* a think() call made in Ready puts the session in SearchInFlight
StartsSearch == phase = "Ready" /\ nthink' # nthink => phase' = "SearchInFlight"

\* think() comes back only with a deposited result, and with that result
ReturnsDeposit ==
    phase = "SearchInFlight" /\ phase' # "SearchInFlight" =>
        /\ threads.pMove.value # << >>
        /\ phase' = "Ready"
        /\ ret' # << >>
        /\ ret'[1].raw = threads.pMove.value[1]
        /\ from_sq(ret'[1].move) = from_sq(ret'[1].raw)
        /\ type_of(ret'[1].raw) # CASTLING => ret'[1].move = ret'[1].raw

\* C13: think() called in Ready puts the session in SearchInFlight; with the
\* worker and the caller scheduled it comes back, the session Ready again and
\* the deposited move returned; it never comes back before the deposit.
C13_ThinkReturns ==
    /\ [][StartsSearch /\ ReturnsDeposit]_vars
    /\ (phase = "SearchInFlight") ~> (phase = "Ready" /\ ret # << >>)

\* the first think() of a session is back with white's queen-side castling
C13_Witness ==
    /\ nthink = 1
    /\ phase = "Ready"
    /\ last.op = "think"
    /\ ret = << [raw |-> make_typed(CASTLING, 4, 0, 2), move |-> make_move(4, 2)] >>


\* C21: every StateInfo made by a move and still on the heap is linked into the
\* current position, one for each entry of the move history: it is deleted
\* when an undo or a reset discards its entry, so the number on the heap is
\* the length of the move history.
C21_SnapshotLifetime ==
    phase = "Ready" =>
        /\ heapStates = HeapInChain(pos)
        /\ heapStates = Len(moveHistory)


\* a step of think(): the one that starts the search, or one taken while the
\* host is blocked in ftr.get()
SearchStep == phase' = "SearchInFlight" \/ phase = "SearchInFlight"

\* C22: think() does not change the session: no step from the start of the
\* search to the return of its result changes the position, the states or the
\* move history, so at the return they are what they were at the call, and
\* the move returned has not been played.
C22_ThinkKeepsSession ==
    [][SearchStep => UNCHANGED <<pos, states, moveHistory>>]_vars

\* think() has returned a move on a position reached by e2-e4, and the history
\* still holds that one move
C22_Witness ==
    /\ phase = "Ready"
    /\ last = [op |-> "think", n |-> 1]
    /\ ret # << >>
    /\ ret[1].raw = make_move(52, 36)
    /\ moveHistory = << make_move(12, 28) >>
    /\ Len(pos.st) = 2


\* undo_move is called with nothing on the move history
UndoOnEmpty == phase = "Ready" /\ moveHistory = << >> /\ last'.op = "undo"

\* C23: undo() on an empty move history always ends as a failure the caller
\* sees, with the position and both histories as they were; the history does
\* not shrink below empty and no move is unmade.
C23_UndoOnEmptyFails ==
    [][UndoOnEmpty => phase' = "Failed" /\ UNCHANGED <<pos, states, moveHistory>>]_vars


\* C24: below the terminal clock all_possible_moves_match_inverse is true only
\* of a candidate list that is the legal moves (castling destinations
\* normalised) in some order, each taken once: a list of the right length
\* that repeats one legal move and leaves another out is rejected.
C24_MatchPermutation ==
    Called("match_inverse") /\ Top(qpos).rule50 < 100 /\ qcall[1].out =>
        SameBag(qcall[1].cands, OwnPairs)

====
